---- MODULE Spec2Model ----
(***************************************************************************)
(* A model of the UptimeRobot Prometheus exporter                          *)
(* (src/src/ws/prometheus_uptimerobot/web.py): the gauge family, the       *)
(* datetime normalizer, the monitor mapper, the paginated fetcher, the     *)
(* collector's collect() cycle and the Flask /metrics handler.             *)
(*                                                                         *)
(* JSON values are strings.  A few reserved strings stand for the JSON     *)
(* values that are not strings (a missing key, null, a number), so that    *)
(* every field of a record can be compared with every other.               *)
(***************************************************************************)
EXTENDS Integers, Sequences, FiniteSets, TLC

\* ------------------------------------------------------------------ bounds

\* Longest data array one page carries.
MaxPageLen == 1
\* Number of collect() calls (or /metrics requests) of one behaviour.
MaxCalls == 2
\* Cap on the HTTP requests of one cycle (the loop of _get_monitors has none).
MaxFetch == 3
\* Most samples appended to one gauge family called on its own.
MaxSamples == 2

\* ------------------------------------------------------------- the state

VARIABLES
    collectors,  \* the UptimeRobotCollector objects: api_key, timeout, _metrics
    upstream,    \* what the API serves at each URL, decided at its first request
    now,         \* datetime.now(), the wall clock of the process
    localtz,     \* the local zone of the process, seconds east of UTC
    config,      \* app.config["UPTIMEROBOT_API_KEY"], Absent when not set
    call,        \* the collect() calls (/metrics requests): position and locals
    health,      \* the latest GET /health request and its response
    unit,        \* a method of the collector called on its own: arguments, result
    environ,     \* os.environ.get("UPTIMEROBOT_API_KEY"), Absent when not set
    process      \* main(): its position, options and locals

\* what a collection cycle never touches
rest == <<health, unit, environ, process>>

vars == <<collectors, upstream, now, localtz, config, call, rest>>

\* --------------------------------------------------------------- constants

NAMESPACE == "uptimerobot"
MIMETYPE_TEXT_PLAIN == "text/plain"
STATUS_UP == "UP"
STATUS_DOWN == "DOWN"
STATUS_PAUSED == "PAUSED"
\* f"{API_BASE_URL}/monitors/", the URL _get_paginated uses without a next_link
BaseUrl == "https://api.uptimerobot.com/v3/monitors/"
Page2Url == "https://api.uptimerobot.com/v3/monitors/?page=2"
URLs == {BaseUrl, Page2Url}
\* timeout: int = 30, the default of UptimeRobotCollector.__init__
DefaultTimeout == 30
\* the readings datetime.now() takes
ClockReadings == {0, 1}

\* ------------------------------------------------------------- JSON values

\* dict.get on a key the mapping does not hold
Absent == "<absent>"
\* JSON null, Python None
Null == "<null>"
\* a JSON number (truthy, not a string)
NumberValue == "<number>"
EmptyString == ""
NonStrings == {Absent, Null, NumberValue}
IsString(v) == v \notin NonStrings
\* Python truthiness of a JSON scalar
Truthy(v) == v \notin {Absent, Null, EmptyString}

\* ISO strings the datetime normalizer is given
IsoZ == "2025-12-31T23:59:59.000Z"
IsoZeroOffset == "2025-12-31T23:59:59.000+00:00"
IsoOffset == "2025-12-31T23:59:59+01:00"
IsoNaive == "2025-12-31T23:59:59"
IsoInvalid == "not-a-date"
\* 2025-12-31T23:59:59 read as UTC, in epoch seconds
EpochOfWall == 1767225599
Naive == "naive"

\* an ISO-shaped string with month 13 and hour 25, and what replace makes of it
IsoBadMonth == "2025-13-01T25:00:00.000Z"
IsoBadMonthZeroOffset == "2025-13-01T25:00:00.000+00:00"

\* str.replace("Z", "+00:00")
ReplaceZ(s) ==
    IF s = IsoZ THEN IsoZeroOffset
    ELSE IF s = IsoBadMonth THEN IsoBadMonthZeroOffset
    ELSE s

\* datetime.fromisoformat: the wall time of the string and its UTC offset
\* (aware), or no offset (naive); ok = FALSE is ValueError
fromisoformat(s) ==
    CASE s = IsoZeroOffset ->
           [ok |-> TRUE, wall |-> EpochOfWall, aware |-> TRUE, utcoffset |-> 0]
      [] s = IsoOffset ->
           [ok |-> TRUE, wall |-> EpochOfWall, aware |-> TRUE, utcoffset |-> 3600]
      [] s = IsoNaive ->
           [ok |-> TRUE, wall |-> EpochOfWall, aware |-> FALSE, utcoffset |-> 0]
      [] OTHER ->
           [ok |-> FALSE, wall |-> 0, aware |-> FALSE, utcoffset |-> 0]

\* datetime.timestamp(): an aware datetime subtracts its own offset, a naive
\* one is read in the local zone of the process
timestamp(dt) ==
    IF dt.aware THEN dt.wall - dt.utcoffset ELSE dt.wall - localtz

\* The try block of _parse_iso_datetime: the timestamp, or the exception
\* that ends it (a value that is no string has no .replace)
ParseTry(iso_string) ==
    IF ~IsString(iso_string)
    THEN [fault |-> "AttributeError", value |-> 0]
    ELSE LET dt == fromisoformat(ReplaceZ(iso_string))
         IN IF dt.ok THEN [fault |-> "none", value |-> timestamp(dt)]
            ELSE [fault |-> "ValueError", value |-> 0]

\* `except ValueError` alone
ParseCaughtValueErrorOnly == {"ValueError"}

\* except (ValueError, AttributeError)
ParseCaught == {"ValueError", "AttributeError"}

\* _parse_iso_datetime as its caller sees it: the value it returns
\* (Optional[float] is a sequence: <<>> is None, <<t>> the timestamp t), the
\* exception that leaves it, and whether it logged an error
ParseOutcome(iso_string) ==
    IF ~Truthy(iso_string)
    THEN [ret |-> <<>>, raised |-> "none", logged |-> FALSE]
    ELSE LET t == ParseTry(iso_string)
         IN IF t.fault = "none"
            THEN [ret |-> <<t.value>>, raised |-> "none", logged |-> FALSE]
            ELSE IF t.fault \in ParseCaught
            THEN [ret |-> <<>>, raised |-> "none", logged |-> TRUE]
            ELSE [ret |-> <<>>, raised |-> t.fault, logged |-> FALSE]

\* UptimeRobotCollector._parse_iso_datetime: the value it returns
_parse_iso_datetime(iso_string) == ParseOutcome(iso_string).ret

\* ------------------------------------------------------------ gauge family

MetricKeys == {"up", "status", "ssl_expire", "scrape_duration_seconds"}
\* the insertion order of the dict built in __init__
MetricOrder == <<"up", "status", "ssl_expire", "scrape_duration_seconds">>

\* the labels of a sample without labels
NoLabels == [monitor_name |-> Absent, monitor_type |-> Absent,
             monitor_url |-> Absent, monitor_paused |-> Absent]

\* PrometheusGauge.__init__: name is f"{namespace}_{name}", kept as the pair
PrometheusGauge(name, documentation, namespace) ==
    [name |-> <<namespace, name>>, documentation |-> documentation,
     _name |-> name, _namespace |-> namespace, samples |-> <<>>]

\* PrometheusGauge.__call__: self.samples.append(Sample(self.name, labels, value))
GaugeCall(gauge, value, labels) ==
    [gauge EXCEPT !.samples =
        Append(@, [name |-> gauge.name, labels |-> labels, value |-> value])]

\* clone as copy.copy(self): the copy keeps the samples of the original
CloneKeepsSamples(gauge) ==
    [PrometheusGauge(gauge._name, gauge.documentation, gauge._namespace)
        EXCEPT !.samples = gauge.samples]

\* PrometheusGauge.clone
clone(gauge) == PrometheusGauge(gauge._name, gauge.documentation, gauge._namespace)

\* the dict self._metrics of UptimeRobotCollector.__init__
NewMetrics ==
    [k \in MetricKeys |->
        CASE k = "up" -> PrometheusGauge("up", "Is the monitor up?", NAMESPACE)
          [] k = "status" ->
               PrometheusGauge("status", "Numeric status of the monitor", NAMESPACE)
          [] k = "ssl_expire" ->
               PrometheusGauge("ssl_expire", "Date of cert expiration", NAMESPACE)
          [] OTHER ->
               PrometheusGauge("scrape_duration_seconds",
                               "Duration of uptimerobot.com scrape", NAMESPACE)]

\* __init__ with `if timeout < 0`: a timeout of zero is accepted
InitRaisesNegativeOnly(api_key, timeout) ==
    IF ~Truthy(api_key) THEN "ValueError"
    ELSE IF ~IsString(api_key) THEN "TypeError"
    ELSE IF timeout < 0 THEN "ValueError"
    ELSE "none"

\* UptimeRobotCollector.__init__: the exception it raises, or "none"
InitRaises(api_key, timeout) ==
    IF ~Truthy(api_key) THEN "ValueError"
    ELSE IF ~IsString(api_key) THEN "TypeError"
    ELSE IF timeout <= 0 THEN "ValueError"
    ELSE "none"

\* --------------------------------------------------------- monitor records

\* One entry of a page's data array.  isMapping = FALSE is an entry that is
\* not a JSON object (a string, a number): it has no .get.
Monitor(isMapping, friendlyName, type, url, status, ssl) ==
    [isMapping |-> isMapping, friendlyName |-> friendlyName, type |-> type,
     url |-> url, status |-> status, sslExpiryDateTime |-> ssl]

RecUp == Monitor(TRUE, "Site", "http", "https://example.com", STATUS_UP, IsoZ)
RecPaused == Monitor(TRUE, "Port", "port", "10.0.0.1", STATUS_PAUSED, Null)
\* "friendlyName": null, everything else missing
RecNullName == Monitor(TRUE, Null, Absent, Absent, Absent, Absent)
\* an entry that is a JSON string
RecNotMapping == Monitor(FALSE, Absent, Absent, Absent, Absent, Absent)
Records == {RecUp, RecPaused, RecNullName, RecNotMapping}

\* monitor.get(key): the default is None whatever the caller passes
GetNoneDefault(value, default) == IF value = Absent THEN Null ELSE value

\* monitor.get(key, default) on a mapping
Get(value, default) == IF value = Absent THEN default ELSE value

Calls == 1..MaxCalls
\* the collector the tests build and use directly
SharedCollector == 0
CollectorIds == 0..MaxCalls
NoCollector == [api_key |-> Absent, timeout |-> 0, _metrics |-> <<>>]

\* ----------------------------------------------------------- monitor mapper

\* the labels dict with monitor_paused derived from the up value:
\* "true" if status != self.STATUS_UP
LabelsPausedIfNotUp(monitor, status) ==
    [monitor_name |-> Get(monitor.friendlyName, EmptyString),
     monitor_type |-> Get(monitor.type, EmptyString),
     monitor_url |-> Get(monitor.url, EmptyString),
     monitor_paused |-> IF status # STATUS_UP THEN "true" ELSE "false"]

\* the labels dict of _process_monitor
Labels(monitor, status) ==
    [monitor_name |-> Get(monitor.friendlyName, EmptyString),
     monitor_type |-> Get(monitor.type, EmptyString),
     monitor_url |-> Get(monitor.url, EmptyString),
     monitor_paused |-> IF status = STATUS_PAUSED THEN "true" ELSE "false"]

\* _process_monitor with is_up = status != self.STATUS_DOWN
ProcessTryUpUnlessDown(monitor, metrics) ==
    IF ~monitor.isMapping
    THEN [metrics |-> metrics, fault |-> "AttributeError"]
    ELSE
      LET status == Get(monitor.status, Null)
          labels == Labels(monitor, status)
          is_up == status # STATUS_DOWN
          status_value == IF is_up THEN 1 ELSE 0
          ssl_info == Get(monitor.sslExpiryDateTime, Null)
          ssl_timestamp == _parse_iso_datetime(ssl_info)
      IN IF "up" \notin DOMAIN metrics
         THEN [metrics |-> metrics, fault |-> "KeyError"]
         ELSE
           LET m1 == [metrics EXCEPT
                        !["up"] = GaugeCall(@, IF is_up THEN 1 ELSE 0, labels)]
           IN IF "status" \notin DOMAIN m1
              THEN [metrics |-> m1, fault |-> "KeyError"]
              ELSE
                LET m2 == [m1 EXCEPT
                             !["status"] = GaugeCall(@, status_value, labels)]
                IN IF ~Truthy(ssl_info) \/ ssl_timestamp = <<>>
                   THEN [metrics |-> m2, fault |-> "none"]
                   ELSE IF "ssl_expire" \notin DOMAIN m2
                   THEN [metrics |-> m2, fault |-> "KeyError"]
                   ELSE [metrics |->
                           [m2 EXCEPT !["ssl_expire"] =
                              GaugeCall(@, ssl_timestamp[1], labels)],
                         fault |-> "none"]

\* _process_monitor without `if ssl_timestamp is not None`: the sample is
\* appended with the value None when the date does not parse
ProcessTrySslUnchecked(monitor, metrics) ==
    IF ~monitor.isMapping
    THEN [metrics |-> metrics, fault |-> "AttributeError"]
    ELSE
      LET status == Get(monitor.status, Null)
          labels == Labels(monitor, status)
          is_up == status = STATUS_UP
          status_value == IF is_up THEN 1 ELSE 0
          ssl_info == Get(monitor.sslExpiryDateTime, Null)
          ssl_timestamp == _parse_iso_datetime(ssl_info)
      IN IF "up" \notin DOMAIN metrics
         THEN [metrics |-> metrics, fault |-> "KeyError"]
         ELSE
           LET m1 == [metrics EXCEPT
                        !["up"] = GaugeCall(@, IF is_up THEN 1 ELSE 0, labels)]
           IN IF "status" \notin DOMAIN m1
              THEN [metrics |-> m1, fault |-> "KeyError"]
              ELSE
                LET m2 == [m1 EXCEPT
                             !["status"] = GaugeCall(@, status_value, labels)]
                IN IF ~Truthy(ssl_info)
                   THEN [metrics |-> m2, fault |-> "none"]
                   ELSE IF "ssl_expire" \notin DOMAIN m2
                   THEN [metrics |-> m2, fault |-> "KeyError"]
                   ELSE [metrics |->
                           [m2 EXCEPT !["ssl_expire"] =
                              GaugeCall(@, IF ssl_timestamp = <<>> THEN Null
                                           ELSE ssl_timestamp[1], labels)],
                         fault |-> "none"]

\* The try block of _process_monitor: the metric set it leaves behind (the
\* gauges are mutated in place) and the exception that ended it, or "none".
ProcessTry(monitor, metrics) ==
    IF ~monitor.isMapping
    THEN [metrics |-> metrics, fault |-> "AttributeError"]
    ELSE
      LET status == Get(monitor.status, Null)
          labels == Labels(monitor, status)
          is_up == status = STATUS_UP
          status_value == IF is_up THEN 1 ELSE 0
          ssl_info == Get(monitor.sslExpiryDateTime, Null)
          ssl_timestamp == _parse_iso_datetime(ssl_info)
      IN IF "up" \notin DOMAIN metrics
         THEN [metrics |-> metrics, fault |-> "KeyError"]
         ELSE
           LET m1 == [metrics EXCEPT
                        !["up"] = GaugeCall(@, IF is_up THEN 1 ELSE 0, labels)]
           IN IF "status" \notin DOMAIN m1
              THEN [metrics |-> m1, fault |-> "KeyError"]
              ELSE
                LET m2 == [m1 EXCEPT
                             !["status"] = GaugeCall(@, status_value, labels)]
                IN IF ~Truthy(ssl_info) \/ ssl_timestamp = <<>>
                   THEN [metrics |-> m2, fault |-> "none"]
                   ELSE IF "ssl_expire" \notin DOMAIN m2
                   THEN [metrics |-> m2, fault |-> "KeyError"]
                   ELSE [metrics |->
                           [m2 EXCEPT !["ssl_expire"] =
                              GaugeCall(@, ssl_timestamp[1], labels)],
                         fault |-> "none"]

\* The except block of _process_monitor: it formats
\* monitor.get('friendlyName', 'unknown') into the log line, which raises again
\* when the record has no .get.
ProcessExcept(monitor, fault) ==
    IF fault = "none" THEN "none"
    ELSE IF monitor.isMapping THEN "none"
    ELSE "AttributeError"

\* UptimeRobotCollector._process_monitor: the metric set afterwards, the
\* exception that leaves it ("none": it returns) and whether it logged.
_process_monitor(monitor, metrics) ==
    LET t == ProcessTry(monitor, metrics)
    IN [metrics |-> t.metrics,
        raised |-> ProcessExcept(monitor, t.fault),
        logged |-> (t.fault # "none" /\ ProcessExcept(monitor, t.fault) = "none")]

\* ------------------------------------------------------------ the upstream

\* A decoded page body.  shape "object" is a JSON object: data_t says whether
\* "data" is missing, null or an array, nextLink is Absent when missing.
\* shape "array" is a non-empty JSON array, "empty" a falsy decoded body
\* (null, [], 0).
Body(shape, data_t, data, nextLink) ==
    [shape |-> shape, data_t |-> data_t, data |-> data, nextLink |-> nextLink]
NoBody == Body("none", "absent", <<>>, Absent)

PageData == UNION {[1..n -> Records] : n \in 0..MaxPageLen}
NextLinks == {Absent, EmptyString} \cup URLs
ObjectBodies ==
    {Body("object", "array", d, l) : d \in PageData, l \in NextLinks}
    \cup {Body("object", t, <<>>, l) : t \in {"absent", "null"}, l \in NextLinks}
OtherBodies == {Body("array", "absent", <<>>, Absent),
                Body("empty", "absent", <<>>, Absent)}

\* What requests.get / raise_for_status / response.json give for one request:
\* a decoded body, or a failure (all three are requests.RequestException).
FailureKinds == {"transport", "http_status", "undecodable"}
Served ==
    {[outcome |-> "ok", body |-> b] : b \in ObjectBodies \cup OtherBodies}
    \cup {[outcome |-> k, body |-> NoBody] : k \in FailureKinds}
Undecided == [outcome |-> "undecided", body |-> NoBody]

\* the upstream is unchanged: a URL serves what it served at its first request
Serve(url) == IF upstream[url] = Undecided THEN Served ELSE {upstream[url]}

\* bool(response) in _get_monitors
BodyTruthy(body) ==
    \/ body.shape = "array"
    \/ /\ body.shape = "object"
       /\ ~(body.data_t = "absent" /\ body.nextLink = Absent)

\* ---------------------------------------------------------------- the calls

TestApiKey == "ur12345-abcdef123456789"

\* UptimeRobotCollector.__init__ when it raises nothing
UptimeRobotCollector(api_key, timeout) ==
    [api_key |-> api_key, timeout |-> timeout, _metrics |-> NewMetrics]

\* the property UptimeRobotCollector.metrics of collector col
metrics(col) == collectors[col]._metrics

RECURSIVE NonEmptyFamilies(_, _)
\* the families of m from the i-th of MetricOrder on that hold a sample
NonEmptyFamilies(m, i) ==
    IF i > Len(MetricOrder) THEN <<>>
    ELSE IF m[MetricOrder[i]].samples = <<>> THEN NonEmptyFamilies(m, i + 1)
    ELSE <<m[MetricOrder[i]]>> \o NonEmptyFamilies(m, i + 1)

\* [g for g in self.metrics.values() if g.samples]: empty families left out
ValuesNonEmpty(m) == NonEmptyFamilies(m, 1)

\* list(self.metrics.values()): the families as they are at this moment
Values(m) == [i \in 1..Len(MetricOrder) |-> m[MetricOrder[i]]]

NoReply == [status |-> 0, mimetype |-> Absent, kind |-> "none", detail |-> "none",
            body |-> <<>>]

NewCall ==
    [pc |-> "idle", self |-> SharedCollector, start_time |-> 0,
     response |-> NoBody, monitors |-> <<>>, idx |-> 1, requests |-> <<>>,
     outcome |-> "none", exc |-> "none", detail |-> "none", result |-> <<>>,
     reply |-> NoReply]

\* the first lines of collect(): start_time = datetime.now(); metrics = self.metrics
EnterCollect(me, col) ==
    [me EXCEPT !.pc = "get_monitors", !.self = col, !.start_time = now]

\* The except clauses and the return of collect(): UptimeRobotAPIError is
\* raised again, any other exception is logged and the families are returned
\* as they are.  exception is the exception's type ("none": no exception),
\* detail the failure the API error wraps, or where a swallowed one arose.
EndCollect(me, exception, detail, m) ==
    IF exception = "UptimeRobotAPIError"
    THEN [me EXCEPT !.pc = "collected", !.outcome = "raised",
                    !.exc = exception, !.detail = detail, !.start_time = 0]
    ELSE [me EXCEPT !.pc = "collected", !.outcome = "returned",
                    !.exc = exception, !.detail = detail,
                    !.result = Values(m), !.start_time = 0]

\* _get_paginated sending the key to the API's own host only: a nextLink
\* naming another host is requested without the authorization header
RequestAuthSameHostOnly(col, url) ==
    [method |-> "GET", url |-> url, accept |-> "application/json",
     authorization |-> IF url \in {BaseUrl, Page2Url}
                       THEN <<"Bearer", collectors[col].api_key>>
                       ELSE <<>>,
     timeout |-> collectors[col].timeout]

\* the request _get_paginated sends for url
Request(col, url) ==
    [method |-> "GET", url |-> url, accept |-> "application/json",
     authorization |-> <<"Bearer", collectors[col].api_key>>,
     timeout |-> collectors[col].timeout]

\* _get_paginated: url = next_link if next_link else f"{API_BASE_URL}/monitors/"
PageUrl(next_link) == IF Truthy(next_link) THEN next_link ELSE BaseUrl

\* _get_paginated with `except requests.HTTPError`, say, in place of
\* RequestException: an undecodable body leaves it as a ValueError
GetPaginatedJsonNotWrapped(served) ==
    IF served.outcome = "ok"
    THEN [raised |-> "none", detail |-> "none", value |-> served.body]
    ELSE IF served.outcome = "undecodable"
    THEN [raised |-> "ValueError", detail |-> "page", value |-> NoBody]
    ELSE [raised |-> "UptimeRobotAPIError", detail |-> served.outcome,
          value |-> NoBody]

\* _get_paginated on what the upstream served: the body, or UptimeRobotAPIError
_get_paginated(served) ==
    IF served.outcome = "ok"
    THEN [raised |-> "none", detail |-> "none", value |-> served.body]
    ELSE [raised |-> "UptimeRobotAPIError", detail |-> served.outcome,
          value |-> NoBody]

\* _get_monitors with monitors = response.get("data", []) + monitors
AfterPagePrepend(me, served) ==
    LET got == _get_paginated(served)
        body == got.value
    IN IF got.raised # "none"
       THEN EndCollect(me, got.raised, got.detail, metrics(me.self))
       ELSE IF ~BodyTruthy(body)
       THEN [me EXCEPT !.response = body, !.pc = "map"]
       ELSE IF body.shape # "object"
       THEN EndCollect([me EXCEPT !.response = body], "AttributeError", "page",
                       metrics(me.self))
       ELSE IF body.data_t = "null"
       THEN EndCollect([me EXCEPT !.response = body], "TypeError", "page",
                       metrics(me.self))
       ELSE [me EXCEPT !.response = body,
                       !.monitors = body.data \o @,
                       !.pc = IF Truthy(body.nextLink) THEN "next_page"
                              ELSE "map"]

\* _get_monitors with a failed page ending the loop like an empty one (break)
AfterPageBreakOnError(me, served) ==
    LET got == _get_paginated(served)
        body == got.value
    IN IF got.raised # "none"
       THEN [me EXCEPT !.pc = "map"]
       ELSE IF ~BodyTruthy(body)
       THEN [me EXCEPT !.response = body, !.pc = "map"]
       ELSE IF body.shape # "object"
       THEN EndCollect([me EXCEPT !.response = body], "AttributeError", "page",
                       metrics(me.self))
       ELSE IF body.data_t = "null"
       THEN EndCollect([me EXCEPT !.response = body], "TypeError", "page",
                       metrics(me.self))
       ELSE [me EXCEPT !.response = body,
                       !.monitors = @ \o body.data,
                       !.pc = IF Truthy(body.nextLink) THEN "next_page"
                              ELSE "map"]

\* One page of _get_monitors, `me` being the call with the request recorded:
\* the fetch, `if response:`, monitors.extend(response.get("data", [])) and
\* the test of the while loop.  A non-object body has no .get and a null
\* data cannot extend a list: both end collect() in its `except Exception`.
AfterPage(me, served) ==
    LET got == _get_paginated(served)
        body == got.value
    IN IF got.raised # "none"
       THEN EndCollect(me, got.raised, got.detail, metrics(me.self))
       ELSE IF ~BodyTruthy(body)
       THEN [me EXCEPT !.response = body, !.pc = "map"]
       ELSE IF body.shape # "object"
       THEN EndCollect([me EXCEPT !.response = body], "AttributeError", "page",
                       metrics(me.self))
       ELSE IF body.data_t = "null"
       THEN EndCollect([me EXCEPT !.response = body], "TypeError", "page",
                       metrics(me.self))
       ELSE [me EXCEPT !.response = body,
                       !.monitors = @ \o body.data,
                       !.pc = IF Truthy(body.nextLink) THEN "next_page"
                              ELSE "map"]

\* _get_monitors handing the first record of each page to the mapper as the
\* page arrives, in place of collecting the whole list first
FetchMapsAsPagesArrive(c, url) ==
    \E served \in Serve(url) :
        /\ upstream' = [upstream EXCEPT ![url] = served]
        /\ call' = [call EXCEPT ![c] =
              AfterPage([call[c] EXCEPT
                           !.requests = Append(@, Request(call[c].self, url))],
                        served)]
        /\ collectors' = [collectors EXCEPT ![call[c].self]._metrics =
              IF served.outcome = "ok" /\ served.body.data # <<>>
              THEN _process_monitor(served.body.data[1], @).metrics
              ELSE @]
        /\ UNCHANGED <<now, localtz, config, rest>>

\* One request of _get_monitors and what follows from its answer; the
\* families are not touched: records are mapped by collect(), after
\* _get_monitors has returned the whole list.
Fetch(c, url) ==
    \E served \in Serve(url) :
        /\ upstream' = [upstream EXCEPT ![url] = served]
        /\ call' = [call EXCEPT ![c] =
              AfterPage([call[c] EXCEPT
                           !.requests = Append(@, Request(call[c].self, url))],
                        served)]
        /\ UNCHANGED <<collectors, now, localtz, config, rest>>

\* collect() is called on the shared collector, after the calls before it
Collect(c) ==
    /\ call[c].pc = "idle"
    /\ \A d \in Calls : d < c => call[d].pc = "collected"
    /\ call' = [call EXCEPT ![c] = EnterCollect(@, SharedCollector)]
    /\ UNCHANGED <<collectors, upstream, now, localtz, config, rest>>

\* _get_monitors: response = self._get_paginated()
GetFirstPage(c) ==
    /\ call[c].pc = "get_monitors"
    /\ Fetch(c, PageUrl(Absent))

\* _get_monitors: response = self._get_paginated(response["nextLink"])
GetNextPage(c) ==
    /\ call[c].pc = "next_page"
    /\ Len(call[c].requests) < MaxFetch
    /\ Fetch(c, PageUrl(call[c].response.nextLink))

\* collect(): one turn of `for monitor in monitors`
ProcessMonitor(c) ==
    /\ call[c].pc = "map"
    /\ call[c].idx <= Len(call[c].monitors)
    /\ LET me == call[c]
           r == _process_monitor(me.monitors[me.idx], metrics(me.self))
       IN /\ collectors' = [collectors EXCEPT ![me.self]._metrics = r.metrics]
          /\ call' = [call EXCEPT ![c] =
                IF r.raised # "none"
                THEN EndCollect(me, r.raised, "record", r.metrics)
                ELSE [me EXCEPT !.idx = @ + 1]]
    /\ UNCHANGED <<upstream, now, localtz, config, rest>>

\* collect(): the scrape duration is recorded and the families are returned
RecordDuration(c) ==
    /\ call[c].pc = "map"
    /\ call[c].idx > Len(call[c].monitors)
    /\ LET me == call[c]
           duration == now - me.start_time
           m == [metrics(me.self) EXCEPT !["scrape_duration_seconds"] =
                    GaugeCall(@, duration, NoLabels)]
       IN /\ collectors' = [collectors EXCEPT ![me.self]._metrics = m]
          /\ call' = [call EXCEPT ![c] = EndCollect(me, "none", "none", m)]
    /\ UNCHANGED <<upstream, now, localtz, config, rest>>

\* datetime.now() is the local wall clock: it advances, and it is set back
\* (a clock adjustment, the end of daylight saving time)
WallClock ==
    /\ \E t \in ClockReadings : t # now /\ now' = t
    /\ UNCHANGED <<collectors, upstream, localtz, config, call, rest>>

\* no GET /health request was served yet
NoHealth == [reply |-> NoReply, requests |-> <<>>, seen |-> <<>>]
\* no method was called on its own
NoUnit == [pc |-> "none"]
\* main() was not entered: the app was built by create_app alone
NoProcess == [pc |-> "none"]

\* A collector built with a key, used directly (as the tests of the collector do)
Init ==
    /\ collectors = [i \in CollectorIds |->
          IF i = SharedCollector
          THEN UptimeRobotCollector(TestApiKey, DefaultTimeout)
          ELSE NoCollector]
    /\ upstream = [u \in URLs |-> Undecided]
    /\ now = 0
    /\ localtz = 0
    /\ config = Absent
    /\ call = [c \in Calls |-> NewCall]
    /\ health = NoHealth
    /\ unit = NoUnit
    /\ environ = Absent
    /\ process = NoProcess

Next ==
    \/ \E c \in Calls : Collect(c)
    \/ \E c \in Calls : GetFirstPage(c)
    \/ \E c \in Calls : GetNextPage(c)
    \/ \E c \in Calls : ProcessMonitor(c)
    \/ \E c \in Calls : RecordDuration(c)
    \/ WallClock

Spec == Init /\ [][Next]_vars

\* ------------------------------------------------------------ the Flask app

\* the api_key create_app is given: None, "", a key, a value that is no string
KeyInputs == {Absent, EmptyString, TestApiKey, NumberValue}

\* create_app: if api_key: app.config["UPTIMEROBOT_API_KEY"] = api_key
create_app(api_key) == IF Truthy(api_key) THEN api_key ELSE Absent

Reply(status, kind, detail, body) ==
    [status |-> status, mimetype |-> MIMETYPE_TEXT_PLAIN, kind |-> kind,
     detail |-> detail, body |-> body]

\* the check of the configured key in metrics(), before anything is built
ConfigErrorReply ==
    Reply(500, "# Error: UptimeRobot API key not configured", "none", <<>>)

\* except UptimeRobotAPIError as e
ApiErrorReply(e) == Reply(503, "# UptimeRobot API Error", e, <<>>)

\* except Exception as e: the body carries traceback.format_exc()
TraceReply(e) == Reply(500, "# Error collecting metrics", e, <<>>)

\* generate_latest escapes every label value with str.replace: a label value
\* that is no string (a null friendlyName) raises AttributeError
RenderRaises(families) ==
    IF \E i \in DOMAIN families : \E j \in DOMAIN families[i].samples :
          \E l \in DOMAIN families[i].samples[j].labels :
             families[i].samples[j].labels[l] \in NonStrings \ {Absent}
    THEN "AttributeError"
    ELSE "none"

\* generate_latest: per family a HELP and a TYPE line and one line per sample
generate_latest(families) ==
    [i \in DOMAIN families |->
        [help |-> <<families[i].name, families[i].documentation>>,
         type |-> <<families[i].name, "gauge">>,
         lines |-> families[i].samples]]

\* Response(data, mimetype=MIMETYPE_TEXT_PLAIN)
MetricsReply(families) == Reply(200, "metrics", "none", generate_latest(families))

\* metrics() with `except Exception` before `except UptimeRobotAPIError`
ReplyForApiErrorAsTrace(me) ==
    IF me.outcome = "raised" THEN TraceReply(me.exc)
    ELSE IF RenderRaises(me.result) # "none"
         THEN TraceReply(RenderRaises(me.result))
         ELSE MetricsReply(me.result)

\* metrics() with generate_latest outside the try block: a rendering fault
\* is not turned into the 500 response
ReplyForRenderUnchecked(me) ==
    IF me.outcome = "raised" THEN ApiErrorReply(me.detail)
    ELSE MetricsReply(me.result)

\* The handlers of metrics() for what collect() did, `me` being the call
\* when collect() has ended.
ReplyFor(me) ==
    IF me.outcome = "raised" THEN ApiErrorReply(me.detail)
    ELSE IF RenderRaises(me.result) # "none"
         THEN TraceReply(RenderRaises(me.result))
         ELSE MetricsReply(me.result)

\* metrics() without the check of the configured key
MetricsNoKeyCheck(c) ==
    /\ call[c].pc = "idle"
    /\ \A d \in Calls : d < c => call[d].pc = "responded"
    /\ IF InitRaises(config, DefaultTimeout) # "none"
       THEN /\ call' = [call EXCEPT ![c] =
                  [@ EXCEPT !.pc = "responded",
                            !.reply = TraceReply(InitRaises(config, DefaultTimeout))]]
            /\ UNCHANGED collectors
       ELSE /\ collectors' = [collectors EXCEPT
                  ![c] = UptimeRobotCollector(config, DefaultTimeout)]
            /\ call' = [call EXCEPT ![c] = EnterCollect(@, c)]
    /\ UNCHANGED <<upstream, now, localtz, config, rest>>

\* GET /metrics arrives: the key is read from the configuration, the collector
\* is configured and registered (register calls describe(), which fetches
\* nothing) and generate_latest calls its collect()
Metrics(c) ==
    /\ call[c].pc = "idle"
    /\ \A d \in Calls : d < c => call[d].pc = "responded"
    /\ IF ~Truthy(config)
       THEN /\ call' = [call EXCEPT ![c] =
                  [@ EXCEPT !.pc = "responded", !.reply = ConfigErrorReply]]
            /\ UNCHANGED collectors
       ELSE IF InitRaises(config, DefaultTimeout) # "none"
       THEN /\ call' = [call EXCEPT ![c] =
                  [@ EXCEPT !.pc = "responded",
                            !.reply = TraceReply(InitRaises(config, DefaultTimeout))]]
            /\ UNCHANGED collectors
       ELSE /\ collectors' = [collectors EXCEPT
                  ![c] = UptimeRobotCollector(config, DefaultTimeout)]
            /\ call' = [call EXCEPT ![c] = EnterCollect(@, c)]
    /\ UNCHANGED <<upstream, now, localtz, config, rest>>

\* metrics(): collect() has ended, the response is built
Respond(c) ==
    /\ call[c].pc = "collected"
    /\ call' = [call EXCEPT ![c] =
          [@ EXCEPT !.pc = "responded", !.reply = ReplyFor(call[c])]]
    /\ UNCHANGED <<collectors, upstream, now, localtz, config, rest>>

InitApp ==
    /\ collectors = [i \in CollectorIds |-> NoCollector]
    /\ upstream = [u \in URLs |-> Undecided]
    /\ now = 0
    /\ localtz = 0
    /\ \E api_key \in KeyInputs : config = create_app(api_key)
    /\ call = [c \in Calls |-> NewCall]
    /\ health = NoHealth
    /\ unit = NoUnit
    /\ environ = Absent
    /\ process = NoProcess

NextApp ==
    \/ \E c \in Calls : Metrics(c)
    \/ \E c \in Calls : GetFirstPage(c)
    \/ \E c \in Calls : GetNextPage(c)
    \/ \E c \in Calls : ProcessMonitor(c)
    \/ \E c \in Calls : RecordDuration(c)
    \/ \E c \in Calls : Respond(c)
    \/ WallClock

SpecApp == InitApp /\ [][NextApp]_vars

\* ------------------------------------------------------------- GET /health

\* What the app is doing when a request is served: whether a /metrics request
\* is being handled (the development server of app.run is threaded) and the
\* status of the latest /metrics request answered, 0 when there is none.
Seen ==
    [during |-> \E c \in Calls : call[c].pc \notin {"idle", "responded"},
     last |-> IF \E c \in Calls : call[c].pc = "responded"
              THEN call[CHOOSE c \in Calls :
                          /\ call[c].pc = "responded"
                          /\ \A d \in Calls :
                                call[d].pc = "responded" => d <= c].reply.status
              ELSE 0]

\* health() answering like metrics() when no key is configured
HealthReplyNeedsKey ==
    IF Truthy(config) THEN Reply(200, "OK", "none", <<>>) ELSE ConfigErrorReply

\* health(): Response("OK\n", mimetype=MIMETYPE_TEXT_PLAIN), status 200
HealthReply == Reply(200, "OK", "none", <<>>)

\* GET /health arrives: health() reads nothing and sends no request
Health ==
    /\ health' = [reply |-> HealthReply, requests |-> <<>>, seen |-> Seen]
    /\ UNCHANGED <<collectors, upstream, now, localtz, config, call,
                   unit, environ, process>>

NextHealth ==
    \/ \E c \in Calls : Metrics(c)
    \/ \E c \in Calls : GetFirstPage(c)
    \/ \E c \in Calls : GetNextPage(c)
    \/ \E c \in Calls : ProcessMonitor(c)
    \/ \E c \in Calls : RecordDuration(c)
    \/ \E c \in Calls : Respond(c)
    \/ Health

\* the app with both of its routes (the wall clock stands still: health()
\* does not read it, and the scrape durations are all 0)
SpecHealth == InitApp /\ [][NextHealth]_vars

\* ------------------------------------------- the methods called on their own

\* the statuses a record carries: the three of the API, one it does not
\* know, lower case, none, null, a number
StatusInputs == {STATUS_UP, STATUS_DOWN, STATUS_PAUSED, "unknown", "up",
                 Absent, Null, NumberValue}
\* the values of sslExpiryDateTime, and the arguments of _parse_iso_datetime
IsoInputs == {Absent, Null, EmptyString, NumberValue, IsoInvalid, IsoBadMonth,
              IsoZ, IsoOffset, IsoNaive}
\* the records _process_monitor is given
UnitRecords ==
    {Monitor(TRUE, n, t, u, st, ssl) :
        n \in {Absent, Null, "Site"}, t \in {Absent, "http"},
        u \in {Absent, "https://example.com"},
        st \in StatusInputs, ssl \in IsoInputs \ {IsoBadMonth}}
    \cup {RecNotMapping}
\* the local zones of the process: UTC, one hour east, five hours west
LocalZones == {0, 3600, -18000}

\* metrics = {key: value.clone() for key, value in collector.metrics.items()}
ClonedMetrics(m) == [k \in DOMAIN m |-> clone(m[k])]

NoParse == [ret |-> <<>>, raised |-> "none", logged |-> FALSE]

\* a collector, a record and a string, before the methods are called
NewUnit(monitor, iso_string) ==
    [pc |-> "built", monitor |-> monitor, metrics |-> ClonedMetrics(NewMetrics),
     mapped |-> FALSE, raised |-> "none", logged |-> FALSE,
     iso_string |-> iso_string, parse_done |-> FALSE, parsed |-> NoParse]

\* collector._process_monitor(monitor, metrics)
CallProcessMonitor ==
    /\ unit.pc = "built"
    /\ ~unit.mapped
    /\ LET r == _process_monitor(unit.monitor, unit.metrics)
       IN unit' = [unit EXCEPT !.mapped = TRUE, !.metrics = r.metrics,
                               !.raised = r.raised, !.logged = r.logged]
    /\ UNCHANGED <<collectors, upstream, now, localtz, config, call,
                   health, environ, process>>

\* UptimeRobotCollector._parse_iso_datetime(iso_string)
CallParseIsoDatetime ==
    /\ unit.pc = "built"
    /\ ~unit.parse_done
    /\ unit' = [unit EXCEPT !.parse_done = TRUE,
                            !.parsed = ParseOutcome(unit.iso_string)]
    /\ UNCHANGED <<collectors, upstream, now, localtz, config, call,
                   health, environ, process>>

\* A collector built with a key, in a process of some local zone, and the
\* arguments its methods are called with
InitUnit ==
    /\ collectors = [i \in CollectorIds |->
          IF i = SharedCollector
          THEN UptimeRobotCollector(TestApiKey, DefaultTimeout)
          ELSE NoCollector]
    /\ upstream = [u \in URLs |-> Undecided]
    /\ now = 0
    /\ localtz \in LocalZones
    /\ config = Absent
    /\ call = [c \in Calls |-> NewCall]
    /\ health = NoHealth
    /\ unit \in {NewUnit(m, i) : m \in UnitRecords, i \in IsoInputs}
    /\ environ = Absent
    /\ process = NoProcess

NextUnit ==
    \/ CallProcessMonitor
    \/ CallParseIsoDatetime

SpecUnit == InitUnit /\ [][NextUnit]_vars

\* ------------------------------------------------- building the collector

\* the timeouts the constructor is given
TimeoutInputs == {-1, 0, 1, DefaultTimeout}

\* collector = UptimeRobotCollector(api_key, timeout): the object exists
\* only if __init__ raises nothing
Construct ==
    /\ unit = NoUnit
    /\ \E api_key \in KeyInputs, timeout \in TimeoutInputs :
          IF InitRaises(api_key, timeout) # "none"
          THEN /\ unit' = [pc |-> "raised", api_key |-> api_key,
                           timeout |-> timeout,
                           exc |-> InitRaises(api_key, timeout)]
               /\ UNCHANGED collectors
          ELSE /\ unit' = [pc |-> "constructed", api_key |-> api_key,
                           timeout |-> timeout, exc |-> "none"]
               /\ collectors' = [collectors EXCEPT ![SharedCollector] =
                     UptimeRobotCollector(api_key, timeout)]
    /\ UNCHANGED <<upstream, now, localtz, config, call, health, environ,
                   process>>

\* collector.collect(): there is a collector to call it on
CollectBuilt(c) ==
    /\ collectors[SharedCollector] # NoCollector
    /\ Collect(c)

\* nothing is built yet
InitBuild ==
    /\ collectors = [i \in CollectorIds |-> NoCollector]
    /\ upstream = [u \in URLs |-> Undecided]
    /\ now = 0
    /\ localtz = 0
    /\ config = Absent
    /\ call = [c \in Calls |-> NewCall]
    /\ health = NoHealth
    /\ unit = NoUnit
    /\ environ = Absent
    /\ process = NoProcess

NextBuild ==
    \/ Construct
    \/ \E c \in Calls : CollectBuilt(c)
    \/ \E c \in Calls : GetFirstPage(c)
    \/ \E c \in Calls : GetNextPage(c)
    \/ \E c \in Calls : ProcessMonitor(c)
    \/ \E c \in Calls : RecordDuration(c)
    \/ WallClock

\* the collector built by its caller and then used
SpecBuild == InitBuild /\ [][NextBuild]_vars

\* ------------------------------------------------------------------ main()

EnvKey == "ur12345-env-key"
ConfigKey == "ur12345-config-key"
\* a value of spaces only
Whitespace == "   "
\* a value with a lone percent sign: ConfigParser.get cannot interpolate it
PercentValue == "ur%key"

\* the values of the environment variable UPTIMEROBOT_API_KEY
EnvInputs == {Absent, EmptyString, Whitespace, EnvKey}

\* The --config option and the file it names: given is FALSE without the
\* option; readable is FALSE when ConfigParser.read raises (no section
\* header); otherwise whether the file has a section [default] and the
\* value of api_key in it (a missing file reads as one without sections).
ConfigFile(given, readable, section, api_key) ==
    [given |-> given, readable |-> readable, section |-> section,
     api_key |-> api_key]
FileInputs ==
    {ConfigFile(FALSE, FALSE, FALSE, Absent),
     ConfigFile(TRUE, FALSE, FALSE, Absent),
     ConfigFile(TRUE, TRUE, FALSE, Absent),
     ConfigFile(TRUE, TRUE, TRUE, Absent)}
    \cup {ConfigFile(TRUE, TRUE, TRUE, v) :
             v \in {EmptyString, ConfigKey, PercentValue}}

\* config = None
NoConfig == [parser |-> FALSE, section |-> FALSE, api_key |-> Absent]

\* load_config: the ConfigParser that read the file, or None with an error
\* logged when reading raises
load_config(file) ==
    IF file.readable
    THEN [ret |-> [parser |-> TRUE, section |-> file.section,
                   api_key |-> file.api_key],
          logged |-> <<>>]
    ELSE [ret |-> NoConfig, logged |-> <<"error: failed to read configuration">>]

\* config.get("default", "api_key"): NoSectionError, NoOptionError, an
\* interpolation error, or the value
ConfigGet(cfg) ==
    IF ~cfg.section THEN [raised |-> "NoSectionError", value |-> Absent]
    ELSE IF cfg.api_key = Absent THEN [raised |-> "NoOptionError", value |-> Absent]
    ELSE IF cfg.api_key = PercentValue
    THEN [raised |-> "InterpolationSyntaxError", value |-> Absent]
    ELSE [raised |-> "none", value |-> cfg.api_key]

\* get_api_key with the environment value stripped before it is tested
GetApiKeyStripped(cfg) ==
    IF Truthy(environ) /\ environ # Whitespace
    THEN [ret |-> environ, logged |-> <<>>]
    ELSE IF cfg.parser
    THEN IF ConfigGet(cfg).raised = "none"
         THEN [ret |-> ConfigGet(cfg).value, logged |-> <<>>]
         ELSE [ret |-> Absent,
               logged |-> <<"warning: failed to get api_key from config">>]
    ELSE [ret |-> Absent, logged |-> <<>>]

\* get_api_key: the environment value if it is truthy, else the value of the
\* config file if there is a parser and get raises nothing, else None
get_api_key(cfg) ==
    IF Truthy(environ)
    THEN [ret |-> environ, logged |-> <<>>]
    ELSE IF cfg.parser
    THEN IF ConfigGet(cfg).raised = "none"
         THEN [ret |-> ConfigGet(cfg).value, logged |-> <<>>]
         ELSE [ret |-> Absent,
               logged |-> <<"warning: failed to get api_key from config">>]
    ELSE [ret |-> Absent, logged |-> <<>>]

\* main() is entered with the options of the command line
NewProcess(file) ==
    [pc |-> "main", file |-> file, config |-> NoConfig, api_key |-> Absent,
     logged |-> <<>>]

\* main(): config = None; if options.config: config = load_config(...)
MainLoadConfig ==
    /\ process.pc = "main"
    /\ process' =
          IF process.file.given
          THEN [process EXCEPT !.pc = "get_api_key",
                  !.config = load_config(process.file).ret,
                  !.logged = @ \o load_config(process.file).logged]
          ELSE [process EXCEPT !.pc = "get_api_key"]
    /\ UNCHANGED <<collectors, upstream, now, localtz, config, call,
                   health, unit, environ>>

\* main(): api_key = get_api_key(config)
MainGetApiKey ==
    /\ process.pc = "get_api_key"
    /\ process' = [process EXCEPT !.pc = "check",
                      !.api_key = get_api_key(process.config).ret,
                      !.logged = @ \o get_api_key(process.config).logged]
    /\ UNCHANGED <<collectors, upstream, now, localtz, config, call,
                   health, unit, environ>>

\* main(): if not api_key: log the error and return; else create_app(api_key)
\* and app.run(host, port)
MainRun ==
    /\ process.pc = "check"
    /\ IF ~Truthy(process.api_key)
       THEN /\ process' = [process EXCEPT !.pc = "returned",
                  !.logged = Append(@, "error: api key not found")]
            /\ UNCHANGED config
       ELSE /\ process' = [process EXCEPT !.pc = "serving"]
            /\ config' = create_app(process.api_key)
    /\ UNCHANGED <<collectors, upstream, now, localtz, call, health, unit,
                   environ>>

\* the server app.run started answers a GET /health
ServeHealth ==
    /\ process.pc = "serving"
    /\ Health

\* the process is started: an environment, a command line, a config file
InitMain ==
    /\ collectors = [i \in CollectorIds |-> NoCollector]
    /\ upstream = [u \in URLs |-> Undecided]
    /\ now = 0
    /\ localtz = 0
    /\ config = Absent
    /\ call = [c \in Calls |-> NewCall]
    /\ health = NoHealth
    /\ unit = NoUnit
    /\ environ \in EnvInputs
    /\ process \in {NewProcess(f) : f \in FileInputs}

NextMain ==
    \/ MainLoadConfig
    \/ MainGetApiKey
    \/ MainRun
    \/ ServeHealth

SpecMain == InitMain /\ [][NextMain]_vars

\* ------------------------------------------------ a gauge family on its own

\* the gauges built: PrometheusGauge("test_metric", "Test documentation",
\* namespace="custom") and one in the default namespace
GaugeInputs ==
    {PrometheusGauge("test_metric", "Test documentation", "custom"),
     PrometheusGauge("up", "Is the monitor up?", NAMESPACE)}

\* the labels {"test": who}, who naming the object the sample is given to
TestLabels(who) == [test |-> who]

\* original = PrometheusGauge(...): no clone yet
NewGauge(g) ==
    [pc |-> "gauge", original |-> g, has_clone |-> FALSE, cloned |-> g,
     at_clone |-> <<>>, born |-> g]

\* original(value, {"test": "original"})
CallOriginal ==
    /\ unit.pc = "gauge"
    /\ Len(unit.original.samples) < MaxSamples
    /\ \E value \in {0, 100} :
          unit' = [unit EXCEPT !.original =
                      GaugeCall(@, value, TestLabels("original"))]
    /\ UNCHANGED <<collectors, upstream, now, localtz, config, call,
                   health, environ, process>>

\* cloned = original.clone(): the new object, and what the original held
\* at that moment
CloneGauge ==
    /\ unit.pc = "gauge"
    /\ ~unit.has_clone
    /\ unit' = [unit EXCEPT !.has_clone = TRUE,
                            !.cloned = clone(unit.original),
                            !.born = clone(unit.original),
                            !.at_clone = unit.original.samples]
    /\ UNCHANGED <<collectors, upstream, now, localtz, config, call,
                   health, environ, process>>

\* cloned(value, {"test": "clone"})
CallClone ==
    /\ unit.pc = "gauge"
    /\ unit.has_clone
    /\ Len(unit.cloned.samples) < MaxSamples
    /\ \E value \in {0, 100} :
          unit' = [unit EXCEPT !.cloned =
                      GaugeCall(@, value, TestLabels("clone"))]
    /\ UNCHANGED <<collectors, upstream, now, localtz, config, call,
                   health, environ, process>>

InitGauge ==
    /\ collectors = [i \in CollectorIds |-> NoCollector]
    /\ upstream = [u \in URLs |-> Undecided]
    /\ now = 0
    /\ localtz = 0
    /\ config = Absent
    /\ call = [c \in Calls |-> NewCall]
    /\ health = NoHealth
    /\ unit \in {NewGauge(g) : g \in GaugeInputs}
    /\ environ = Absent
    /\ process = NoProcess

NextGauge ==
    \/ CallOriginal
    \/ CloneGauge
    \/ CallClone

SpecGauge == InitGauge /\ [][NextGauge]_vars

\* ------------------------------------------------- the app under load

\* a nextLink that names another host
OffHostUrl == "https://other.example/v3/monitors/?page=3"
ServerURLs == {BaseUrl, Page2Url, OffHostUrl}

\* a page the upstream serves: a JSON object with data and, maybe, nextLink
Page(data, nextLink) ==
    [outcome |-> "ok", body |-> Body("object", "array", data, nextLink)]
\* a request the upstream fails
Fails(kind) == [outcome |-> kind, body |-> NoBody]

\* What the upstream serves at the three URLs, at one moment:
\* one page with one monitor (test_error_recovery, after the reset)
UpstreamOnePage ==
    [u \in ServerURLs |->
        IF u = BaseUrl THEN Page(<<RecUp>>, Absent) ELSE Fails("http_status")]
\* three linked pages, the last on another host
UpstreamThreePages ==
    [u \in ServerURLs |->
        CASE u = BaseUrl -> Page(<<RecUp>>, Page2Url)
          [] u = Page2Url -> Page(<<RecPaused>>, OffHostUrl)
          [] OTHER -> Page(<<RecUp>>, EmptyString)]
\* every request answered with status 500 (test_error_recovery, at first)
UpstreamDown == [u \in ServerURLs |-> Fails("http_status")]
\* a data array whose first entry is no JSON object
UpstreamMalformed ==
    [u \in ServerURLs |->
        IF u = BaseUrl THEN Page(<<RecNotMapping>>, Page2Url)
        ELSE Page(<<RecUp>>, Absent)]
Upstreams == {UpstreamOnePage, UpstreamThreePages, UpstreamDown,
              UpstreamMalformed}

\* metrics() with one collector kept by the app and used by every request
MetricsSharedCollector(c) ==
    /\ call[c].pc = "idle"
    /\ \A d \in Calls : d < c => call[d].pc # "idle"
    /\ collectors' = [collectors EXCEPT ![SharedCollector] =
          IF @ = NoCollector THEN UptimeRobotCollector(config, DefaultTimeout)
          ELSE @]
    /\ call' = [call EXCEPT ![c] = EnterCollect(@, SharedCollector)]
    /\ UNCHANGED <<upstream, now, localtz, config, rest>>

\* GET /metrics arrives while earlier requests may still be handled (the
\* requests are numbered in the order they arrive)
MetricsAnyTime(c) ==
    /\ call[c].pc = "idle"
    /\ \A d \in Calls : d < c => call[d].pc # "idle"
    /\ IF ~Truthy(config)
       THEN /\ call' = [call EXCEPT ![c] =
                  [@ EXCEPT !.pc = "responded", !.reply = ConfigErrorReply]]
            /\ UNCHANGED collectors
       ELSE IF InitRaises(config, DefaultTimeout) # "none"
       THEN /\ call' = [call EXCEPT ![c] =
                  [@ EXCEPT !.pc = "responded",
                            !.reply = TraceReply(InitRaises(config, DefaultTimeout))]]
            /\ UNCHANGED collectors
       ELSE /\ collectors' = [collectors EXCEPT
                  ![c] = UptimeRobotCollector(config, DefaultTimeout)]
            /\ call' = [call EXCEPT ![c] = EnterCollect(@, c)]
    /\ UNCHANGED <<upstream, now, localtz, config, rest>>

\* the upstream changes: it goes down, recovers, gains or loses monitors
UpstreamChanges ==
    /\ \E u \in Upstreams : u # upstream /\ upstream' = u
    /\ UNCHANGED <<collectors, now, localtz, config, call, rest>>

\* an app with a key, and an upstream in one of its conditions
InitServer ==
    /\ collectors = [i \in CollectorIds |-> NoCollector]
    /\ upstream \in Upstreams
    /\ now = 0
    /\ localtz = 0
    /\ config = create_app(TestApiKey)
    /\ call = [c \in Calls |-> NewCall]
    /\ health = NoHealth
    /\ unit = NoUnit
    /\ environ = Absent
    /\ process = NoProcess

NextServer ==
    \/ \E c \in Calls : MetricsAnyTime(c)
    \/ \E c \in Calls : GetFirstPage(c)
    \/ \E c \in Calls : GetNextPage(c)
    \/ \E c \in Calls : ProcessMonitor(c)
    \/ \E c \in Calls : RecordDuration(c)
    \/ \E c \in Calls : Respond(c)
    \/ UpstreamChanges

\* concurrent /metrics requests against a changing upstream (the wall clock
\* stands still: the scrape durations are all 0)
SpecServer == InitServer /\ [][NextServer]_vars

\* ---------------------------------------- one collector, concurrent calls

\* `metrics = self.metrics` in collect(): the dict a call appends to is the
\* dict self._metrics of its collector, the same object for every call
MetricSetOf(me) == <<"_metrics of collector", me.self>>

\* collect() is called on the shared collector while earlier calls may
\* still be running (the calls are numbered in the order they start)
CollectAnyTime(c) ==
    /\ call[c].pc = "idle"
    /\ \A d \in Calls : d < c => call[d].pc # "idle"
    /\ call' = [call EXCEPT ![c] = EnterCollect(@, SharedCollector)]
    /\ UNCHANGED <<collectors, upstream, now, localtz, config, rest>>

\* a collector built with a key, and an upstream in one of its conditions
InitShared ==
    /\ collectors = [i \in CollectorIds |->
          IF i = SharedCollector
          THEN UptimeRobotCollector(TestApiKey, DefaultTimeout)
          ELSE NoCollector]
    /\ upstream \in Upstreams
    /\ now = 0
    /\ localtz = 0
    /\ config = Absent
    /\ call = [c \in Calls |-> NewCall]
    /\ health = NoHealth
    /\ unit = NoUnit
    /\ environ = Absent
    /\ process = NoProcess

NextShared ==
    \/ \E c \in Calls : CollectAnyTime(c)
    \/ \E c \in Calls : GetFirstPage(c)
    \/ \E c \in Calls : GetNextPage(c)
    \/ \E c \in Calls : ProcessMonitor(c)
    \/ \E c \in Calls : RecordDuration(c)

\* threads calling collect() on one collector (the wall clock stands still)
SpecShared == InitShared /\ [][NextShared]_vars

\* ------------------------------------------------------------------ claims

\* the family of key k in the list collect() returned
Family(result, k) == result[CHOOSE i \in DOMAIN result : MetricOrder[i] = k]

\* the URL of the i-th request of a call was served a failure
Failed(c, i) == upstream[call[c].requests[i].url].outcome \in FailureKinds

\* C1: two collect() calls in sequence on the same collector, the upstream
\* unchanged, return the same four families and, family by family, the same
\* number of samples (the result is read when the call returns).
C1_CollectIdempotent ==
    \A c, d \in Calls :
        (call[c].outcome = "returned" /\ call[d].outcome = "returned") =>
            /\ DOMAIN call[c].result = DOMAIN call[d].result
            /\ \A i \in DOMAIN call[c].result :
                  /\ call[c].result[i].name = call[d].result[i].name
                  /\ Len(call[c].result[i].samples) = Len(call[d].result[i].samples)

\* C2: whenever collect() returns, the scrape_duration_seconds family it
\* returns holds exactly one sample, without labels and with a value >= 0.
C2_OneDurationSample ==
    \A c \in Calls :
        call[c].outcome = "returned" =>
            LET f == Family(call[c].result, "scrape_duration_seconds")
            IN /\ Len(f.samples) = 1
               /\ f.samples[1].labels = NoLabels
               /\ f.samples[1].value >= 0

\* C3: a malformed record never aborts the scrape: when collect() returns
\* after the pages were fetched, every well-formed record of the fetched
\* list has its up sample and its status sample in the result, whatever
\* records precede it.
C3_LaterRecordsProcessed ==
    \A c \in Calls :
        (call[c].outcome = "returned" /\ call[c].detail # "page") =>
            \A i \in DOMAIN call[c].monitors :
                LET monitor == call[c].monitors[i]
                    labels == Labels(monitor, Get(monitor.status, Null))
                IN monitor.isMapping =>
                     /\ \E j \in DOMAIN Family(call[c].result, "up").samples :
                           Family(call[c].result, "up").samples[j].labels = labels
                     /\ \E j \in DOMAIN Family(call[c].result, "status").samples :
                           Family(call[c].result, "status").samples[j].labels = labels

\* C4: _process_monitor returns normally for every record it is given: no
\* exception leaves it.
C4_MapperNeverRaises ==
    \A c \in Calls :
        (call[c].pc = "map" /\ call[c].idx <= Len(call[c].monitors)) =>
            _process_monitor(call[c].monitors[call[c].idx],
                             metrics(call[c].self)).raised = "none"

\* _get_monitors has returned its list to collect()
FetchDone(c) ==
    \/ call[c].pc = "map"
    \/ call[c].outcome = "returned" /\ call[c].detail # "page"

\* the URLs the requests of a call went to, in order
RequestUrls(c) == [i \in DOMAIN call[c].requests |-> call[c].requests[i].url]

RECURSIVE ChainUrls(_, _)
\* the chain of pages the upstream serves from url on, following nextLink,
\* cut after n pages
ChainUrls(url, n) ==
    IF n = 0 THEN <<>>
    ELSE IF upstream[url].outcome = "ok" /\ Truthy(upstream[url].body.nextLink)
         THEN <<url>> \o ChainUrls(upstream[url].body.nextLink, n - 1)
         ELSE <<url>>

RECURSIVE Concatenation(_)
\* the data arrays of the pages at urls, one after the other
Concatenation(urls) ==
    IF urls = <<>> THEN <<>>
    ELSE upstream[Head(urls)].body.data \o Concatenation(Tail(urls))

\* the upstream serves a finite chain of pages, each a decoded body whose
\* data is an array or missing
FiniteChain(urls) ==
    /\ \A i \in DOMAIN urls :
          /\ upstream[urls[i]].outcome = "ok"
          /\ upstream[urls[i]].body.shape \in {"object", "empty"}
          /\ upstream[urls[i]].body.data_t \in {"absent", "array"}
    /\ urls # <<>>
    /\ ~Truthy(upstream[urls[Len(urls)]].body.nextLink)

\* C6: on a finite chain of N pages _get_monitors sends exactly N requests,
\* the first to the base URL and the k-th to the nextLink of page k-1, and
\* returns the data arrays of the pages concatenated in page order (missing
\* data: no records).
C6_PagesConcatenated ==
    \A c \in Calls :
        LET chain == ChainUrls(BaseUrl, MaxFetch)
        IN (call[c].outcome # "none" \/ call[c].pc = "map") /\ FiniteChain(chain) =>
              /\ FetchDone(c)
              /\ RequestUrls(c) = chain
              /\ call[c].monitors = Concatenation(chain)

\* C6 witness: two pages with different records were fetched
C6_Witness ==
    \E c \in Calls :
        /\ call[c].pc = "map"
        /\ FiniteChain(ChainUrls(BaseUrl, MaxFetch))
        /\ Len(call[c].requests) = 2
        /\ Len(call[c].monitors) = 2
        /\ call[c].monitors[1] # call[c].monitors[2]

C8_ApiErrorIs503 ==
    \A c \in Calls :
        (call[c].pc = "responded" /\ call[c].outcome = "raised") =>
            /\ call[c].reply.status = 503
            /\ call[c].reply.mimetype = MIMETYPE_TEXT_PLAIN
            /\ call[c].reply.kind = "# UptimeRobot API Error"
            /\ call[c].reply.detail = call[c].detail
            /\ call[c].reply.detail \in FailureKinds
            /\ call[c].reply.body = <<>>

\* C8 witness: the request was answered after its second page had failed
C8_Witness ==
    \E c \in Calls :
        /\ call[c].pc = "responded"
        /\ call[c].outcome = "raised"
        /\ Len(call[c].requests) = 2
        /\ Len(call[c].monitors) = 1

\* the constructor of the collector raises for the configured key
ConstructionFault == Truthy(config) /\ InitRaises(config, DefaultTimeout) # "none"

\* collect() returned after an exception in the aggregation of a page or in
\* the mapping of a record
CollectFault(c) == call[c].outcome = "returned" /\ call[c].exc # "none"

\* rendering the families collect() returned raises
RenderFault(c) ==
    call[c].outcome = "returned" /\ RenderRaises(call[c].result) # "none"

C10_NoKeyNoRequest ==
    ~Truthy(config) =>
        \A c \in Calls :
            /\ call[c].requests = <<>>
            /\ collectors[c] = NoCollector
            /\ call[c].pc \in {"idle", "responded"}
            /\ call[c].pc = "responded" =>
                  /\ call[c].reply = ConfigErrorReply
                  /\ call[c].reply.status = 500

\* C10 witness: a request was answered by an app without a key
C10_Witness ==
    /\ ~Truthy(config)
    /\ \E c \in Calls : call[c].pc = "responded"

\* C11: GET /health answers 200, text/plain, with the fixed body "OK" whatever
\* the state of the app: with or without a configured key, before, during
\* or after /metrics requests that succeeded or failed; and it sends no
\* upstream request.
C11_HealthAlwaysOk ==
    health # NoHealth =>
        /\ health.reply.status = 200
        /\ health.reply.kind = "OK"
        /\ health.reply.mimetype = MIMETYPE_TEXT_PLAIN
        /\ health.reply.body = <<>>
        /\ health.requests = <<>>

\* C11 witness: /health was answered while a /metrics request was being
\* handled, after an earlier one had been answered 503
C11_Witness ==
    /\ health # NoHealth
    /\ health.seen.during
    /\ health.seen.last = 503
    /\ health.reply.status = 200

\* C11 witness of the other case: /health was answered by an app without a key
C11_WitnessNoKey ==
    /\ health # NoHealth
    /\ ~Truthy(config)
    /\ health.seen.last = 500

\* the sample lines of family k in the body of the response to request c
Lines(c, k) ==
    call[c].reply.body[CHOOSE i \in DOMAIN call[c].reply.body :
                          MetricOrder[i] = k].lines

\* C12: a GET /metrics request answered 200 ran one collection cycle on its
\* own collector: the body holds exactly one uptimerobot_up line per record
\* the upstream returned, in order and with the record's labels, and an
\* ssl_expire line only for a record that carries an SSL date.
C12_OneUpLinePerRecord ==
    \A c \in Calls :
        (call[c].pc = "responded" /\ call[c].reply.status = 200) =>
            /\ Len(Lines(c, "up")) = Len(call[c].monitors)
            /\ \A i \in DOMAIN Lines(c, "up") :
                  Lines(c, "up")[i].labels =
                     Labels(call[c].monitors[i],
                            Get(call[c].monitors[i].status, Null))
            /\ \A j \in DOMAIN Lines(c, "ssl_expire") :
                  \E i \in DOMAIN call[c].monitors :
                     /\ Truthy(call[c].monitors[i].sslExpiryDateTime)
                     /\ Lines(c, "ssl_expire")[j].labels = Lines(c, "up")[i].labels

\* C13: the up sample the mapper appends for a record has value 1 if and
\* only if the record's status equals "UP"; every other status (DOWN,
\* PAUSED, unknown, lower case, absent, null, a number) gives 0.
C13_UpIffStatusUp ==
    unit.mapped =>
        /\ unit.monitor.isMapping => Len(unit.metrics["up"].samples) = 1
        /\ \A j \in DOMAIN unit.metrics["up"].samples :
              unit.metrics["up"].samples[j].value =
                 IF unit.monitor.status = STATUS_UP THEN 1 ELSE 0

\* C13 witness: a record whose status is a number was mapped to up = 0
C13_Witness ==
    /\ unit.mapped
    /\ unit.monitor.status = NumberValue
    /\ Len(unit.metrics["up"].samples) = 1
    /\ unit.metrics["up"].samples[1].value = 0

\* the samples the mapper appended to family k
Appended(k) == unit.metrics[k].samples

\* C14: the label monitor_paused is "true" if and only if the record's
\* status equals "PAUSED", whatever the up value: a PAUSED record gives
\* up = 0, status = 0 and monitor_paused = "true" together, every other
\* record monitor_paused = "false".
C14_PausedIffStatusPaused ==
    unit.mapped =>
        /\ \A k \in MetricKeys : \A j \in DOMAIN Appended(k) :
              Appended(k)[j].labels.monitor_paused =
                 IF unit.monitor.status = STATUS_PAUSED THEN "true" ELSE "false"
        /\ unit.monitor.status = STATUS_PAUSED =>
              /\ Len(Appended("up")) = 1
              /\ Len(Appended("status")) = 1
              /\ Appended("up")[1].value = 0
              /\ Appended("status")[1].value = 0
              /\ Appended("up")[1].labels.monitor_paused = "true"
              /\ Appended("status")[1].labels.monitor_paused = "true"

\* C14 witness: a PAUSED record was mapped
C14_Witness ==
    /\ unit.mapped
    /\ unit.monitor.status = STATUS_PAUSED
    /\ Len(Appended("up")) = 1
    /\ Appended("up")[1].labels.monitor_paused = "true"

\* a record without any of its fields: {}
EmptyRecord == Monitor(TRUE, Absent, Absent, Absent, Absent, Absent)

\* C15: for the record {} the mapper appends exactly one up sample and one
\* status sample, both with value 0 and with monitor_name, monitor_type and
\* monitor_url equal to the empty string, no ssl_expire sample, and raises
\* nothing.
C15_EmptyRecordMapped ==
    (unit.mapped /\ unit.monitor = EmptyRecord) =>
        /\ unit.raised = "none"
        /\ Len(Appended("ssl_expire")) = 0
        /\ Len(Appended("scrape_duration_seconds")) = 0
        /\ \A k \in {"up", "status"} :
              /\ Len(Appended(k)) = 1
              /\ Appended(k)[1].value = 0
              /\ Appended(k)[1].labels.monitor_name = EmptyString
              /\ Appended(k)[1].labels.monitor_type = EmptyString
              /\ Appended(k)[1].labels.monitor_url = EmptyString
              /\ Appended(k)[1].labels.monitor_paused = "false"

\* C15 witness: the record {} was mapped
C15_Witness ==
    /\ unit.mapped
    /\ unit.monitor = EmptyRecord
    /\ Len(Appended("up")) = 1

\* the strings of IsoInputs that are ISO 8601 datetimes
ValidIso == {IsoZ, IsoOffset, IsoNaive}

\* what the normalizer makes of a valid string in this process
ParsedTimestamp(iso_string) ==
    CASE iso_string = IsoZ -> EpochOfWall
      [] iso_string = IsoOffset -> EpochOfWall - 3600
      [] iso_string = IsoNaive -> EpochOfWall - localtz

C16_WitnessParsed ==
    /\ unit.mapped
    /\ unit.monitor.sslExpiryDateTime = IsoOffset
    /\ Len(Appended("ssl_expire")) = 1

\* C17: _parse_iso_datetime returns None and raises nothing for the empty
\* string, for null (and a missing value), for a value that is no string and
\* for every string that is no ISO 8601 datetime.
C17_ParseInvalidIsNone ==
    (unit.parse_done /\ unit.iso_string \notin ValidIso) =>
        /\ unit.parsed.ret = <<>>
        /\ unit.parsed.raised = "none"

\* C17 witness: the normalizer was given a number, logged and returned None
C17_Witness ==
    /\ unit.parse_done
    /\ unit.iso_string = NumberValue
    /\ unit.parsed.ret = <<>>
    /\ unit.parsed.logged

\* the instant a valid string denotes, in UTC epoch seconds; the wall time
\* of a string without zone designator is taken as UTC
UtcInstant(iso_string) ==
    CASE iso_string = IsoZ -> EpochOfWall
      [] iso_string = IsoOffset -> EpochOfWall - 3600
      [] iso_string = IsoNaive -> EpochOfWall

\* C18: every value _parse_iso_datetime returns is the UTC epoch seconds of
\* the instant its input denotes (Z suffix, explicit offset, no zone
\* designator), the same in every local zone of the process.
C18_UtcEpochInEveryZone ==
    (unit.parse_done /\ unit.parsed.ret # <<>>) =>
        /\ unit.iso_string \in ValidIso
        /\ unit.parsed.ret[1] = UtcInstant(unit.iso_string)

\* C19: the constructor raises on an empty or absent API key and on a
\* timeout <= 0, at construction: no request was sent, and afterwards there
\* is no collector on which collect() could be called (none is ever called).
C19_ConstructorValidates ==
    (unit # NoUnit /\ (~Truthy(unit.api_key) \/ unit.timeout <= 0)) =>
        /\ unit.pc = "raised"
        /\ unit.exc \in {"ValueError", "TypeError"}
        /\ IsString(unit.api_key) \/ unit.api_key \in {Absent, Null} =>
              unit.exc = "ValueError"
        /\ collectors[SharedCollector] = NoCollector
        /\ \A u \in URLs : upstream[u] = Undecided
        /\ \A c \in Calls : call[c] = NewCall

\* C19 witness: the constructor raised on a timeout of zero with a good key
C19_Witness ==
    /\ unit # NoUnit
    /\ unit.pc = "raised"
    /\ unit.api_key = TestApiKey
    /\ unit.timeout = 0

\* the file of the command line holds a value of api_key under [default]
\* that ConfigParser.get returns
FileValue ==
    IF /\ process.file.given /\ process.file.readable /\ process.file.section
       /\ process.file.api_key \notin {Absent, PercentValue}
    THEN process.file.api_key
    ELSE Absent

C20_WitnessNoKey ==
    /\ process.pc = "returned"
    /\ process.api_key = Absent
    /\ process.file.api_key = PercentValue

\* the name f"{namespace}_{name}" of each family, in the order of the dict
FamilyNames ==
    <<(<<NAMESPACE, "up">>), (<<NAMESPACE, "status">>),
      (<<NAMESPACE, "ssl_expire">>), (<<NAMESPACE, "scrape_duration_seconds">>)>>

OwnLabels(c, i) ==
    Labels(call[c].monitors[i], Get(call[c].monitors[i].status, Null))

\* C22: concurrent GET /metrics requests, in any interleaving of their
\* fetch, mapping and rendering steps, never share a metric set: each
\* request works on the families of its own collector, which hold one up
\* and one status sample per record that request has mapped and nothing
\* else, and its response holds those samples alone.
C22_RequestsShareNothing ==
    \A c \in Calls :
        call[c].pc # "idle" =>
            /\ call[c].self = c
            /\ \A d \in Calls : (d # c /\ call[d].pc # "idle") =>
                  call[d].self # call[c].self
            /\ \A k \in {"up", "status"} :
                  /\ Len(metrics(c)[k].samples) = call[c].idx - 1
                  /\ \A i \in DOMAIN metrics(c)[k].samples :
                        metrics(c)[k].samples[i].labels = OwnLabels(c, i)
            /\ Len(metrics(c)["ssl_expire"].samples) <= call[c].idx - 1
            /\ Len(metrics(c)["scrape_duration_seconds"].samples) <= 1
            /\ (call[c].pc = "responded" /\ call[c].reply.status = 200) =>
                  \A k \in MetricKeys : Lines(c, k) = metrics(c)[k].samples

\* C22 witness: two requests were both mapping records, the first having
\* mapped two and the second one
C22_Witness ==
    \E c, d \in Calls :
        /\ c # d
        /\ call[c].pc = "map"
        /\ call[d].pc = "map"
        /\ call[c].idx = 3
        /\ call[d].idx = 2

\* C23: no metric state survives a request: a response with metrics holds
\* exactly the samples of the monitors the upstream returned during that
\* request (one up and one status line per record, in order), whatever
\* earlier requests fetched and however they ended, a request answered 503
\* before a recovery included.
C23_NoStateSurvives ==
    \A c \in Calls :
        (call[c].pc = "responded" /\ call[c].reply.status = 200) =>
            \A k \in {"up", "status"} :
                /\ Len(Lines(c, k)) = Len(call[c].monitors)
                /\ \A i \in DOMAIN Lines(c, k) :
                      Lines(c, k)[i].labels = OwnLabels(c, i)

\* s is what t began with
IsPrefix(s, t) == Len(s) <= Len(t) /\ \A i \in DOMAIN s : s[i] = t[i]

\* C24: clone() returns a new family with the name, documentation and
\* namespace of the original and no samples, and leaves the samples of the
\* original as they are; a sample appended later to the clone never appears
\* in the original, nor one appended to the original in the clone.
C24_CloneIsFreshCopy ==
    (unit.pc = "gauge" /\ unit.has_clone) =>
        /\ unit.born.samples = <<>>
        /\ \A g \in {unit.born, unit.cloned} :
              /\ g.name = unit.original.name
              /\ g.documentation = unit.original.documentation
              /\ g._namespace = unit.original._namespace
              /\ g._name = unit.original._name
        /\ IsPrefix(unit.at_clone, unit.original.samples)
        /\ \A i \in DOMAIN unit.original.samples :
              unit.original.samples[i].labels = TestLabels("original")
        /\ \A i \in DOMAIN unit.cloned.samples :
              unit.cloned.samples[i].labels = TestLabels("clone")

\* C24 witness: a gauge with a sample was cloned, and then the clone and the
\* original were each given a sample
C24_Witness ==
    /\ unit.pc = "gauge"
    /\ unit.has_clone
    /\ Len(unit.at_clone) = 1
    /\ Len(unit.original.samples) = 2
    /\ Len(unit.cloned.samples) = 1

\* C25: collect() never mutates the template families of its collector
\* (collector.metrics, built in __init__): after any number of collect()
\* calls, ended or running, returned or raised, every template family
\* holds no sample.
C25_TemplatesStayEmpty ==
    \A k \in MetricKeys : metrics(SharedCollector)[k].samples = <<>>

\* collect() is running for call c
InFlight(c) == call[c].pc \in {"get_monitors", "next_page", "map"}

\* C26: two collect() calls in flight at the same time on one collector
\* each own a private metric set: they never append to the same family
\* objects, and the up family a call has appended to holds the samples of
\* the records that call mapped, no more.
C26_PrivateMetricSets ==
    \A c, d \in Calls :
        (c # d /\ InFlight(c) /\ InFlight(d)) =>
            /\ MetricSetOf(call[c]) # MetricSetOf(call[d])
            /\ Len(metrics(call[c].self)["up"].samples) <= call[c].idx - 1

\* C27: in the families a collect() call returns, up and status have the
\* same number of samples, the i-th up sample and the i-th status sample
\* have the same value and the same labels, and both come from the i-th
\* record of the list that call fetched (its labels, 1 for status UP and 0
\* otherwise).
C27_UpStatusParity ==
    \A c \in Calls :
        call[c].outcome = "returned" =>
            LET up == Family(call[c].result, "up").samples
                status == Family(call[c].result, "status").samples
            IN /\ Len(up) = Len(status)
               /\ \A i \in DOMAIN up :
                     /\ up[i].value = status[i].value
                     /\ up[i].labels = status[i].labels
                     /\ i \in DOMAIN call[c].monitors
                     /\ up[i].labels = OwnLabels(c, i)
                     /\ up[i].value =
                           IF call[c].monitors[i].status = STATUS_UP THEN 1 ELSE 0

\* what the upstream served to the last request of call c
LastServed(c) == upstream[call[c].requests[Len(call[c].requests)].url]

\* C28: the page-following loop of _get_monitors ends exactly when the
\* chain ends or fails: after each fetch the loop goes on to another page
\* if and only if the fetch succeeded and the page carries a non-empty
\* nextLink, however many pages were fetched and whether or not that URL
\* was fetched before (no ceiling, no cycle detection).
C28_LoopEndsOnlyWithChain ==
    \A c \in Calls :
        call[c].requests # <<>> =>
            (call[c].pc = "next_page"
               <=> /\ LastServed(c).outcome = "ok"
                   /\ Truthy(LastServed(c).body.nextLink))

\* call c is in _get_monitors
Fetching(c) == call[c].pc \in {"get_monitors", "next_page"}

\* C29: within one collect() cycle every page fetch comes before the first
\* record is mapped: from the entry of collect() to the end of
\* _get_monitors no step appends a sample to any family, so a cycle that
\* ends with UptimeRobotAPIError leaves every family of the collector with
\* exactly the samples it had before the call, and has mapped no record.
C29_FetchBeforeMapping ==
    [][\A c \in Calls :
          (Fetching(c) \/ Fetching(c)') =>
              /\ collectors' = collectors
              /\ call[c].idx = 1
              /\ call'[c].idx = 1
              /\ call'[c].outcome = "raised" =>
                    /\ call'[c].exc = "UptimeRobotAPIError"
                    /\ call'[c].result = <<>>]_vars

\* C29 witness: a cycle ended with UptimeRobotAPIError at its second page,
\* whose body could not be decoded; the record of the first page, a
\* well-formed monitor that is up, was fetched and never mapped: the
\* families hold no sample
C29_Witness ==
    \E c \in Calls :
        /\ call[c].outcome = "raised"
        /\ call[c].detail = "undecodable"
        /\ call[c].monitors = <<RecUp>>
        /\ call[c].idx = 1
        /\ \A k \in MetricKeys : metrics(call[c].self)[k].samples = <<>>

\* C30: every request of a cycle, to the base listing URL and to every
\* nextLink whatever host it names, is a GET with the headers
\* authorization: Bearer <the configured key> and accept: application/json
\* and with the timeout the collector was configured with.
C30_EveryRequestAuthorized ==
    \A c \in Calls : \A i \in DOMAIN call[c].requests :
        LET request == call[c].requests[i]
        IN /\ request.method = "GET"
           /\ request.accept = "application/json"
           /\ request.authorization = <<"Bearer", config>>
           /\ request.authorization[2] = collectors[call[c].self].api_key
           /\ request.timeout = collectors[call[c].self].timeout
           /\ request.timeout = DefaultTimeout

\* C30 witness: the third request of a cycle went to the nextLink that
\* names another host, with the key
C30_Witness ==
    \E c \in Calls :
        /\ Len(call[c].requests) = 3
        /\ call[c].requests[3].url = OffHostUrl
        /\ call[c].requests[3].authorization = <<"Bearer", TestApiKey>>

====
